---- MODULE Spec2Model ----
(***************************************************************************)
(* State-machine model of src/src/components/VoiceAgent.tsx: the React     *)
(* component VoiceAgent, its handlers (open click, startConversation,      *)
(* endConversation, toggleMute), its effects (auto-connect, timer), the    *)
(* continuations of its awaits, the listeners it attaches to the call      *)
(* frame, and its unmount, where the model ends.  The call SDK and the     *)
(* HTTP endpoint are the environment: their outcomes are nondeterministic  *)
(* choices.                                                                *)
(***************************************************************************)
EXTENDS Integers, FiniteSets, Sequences, TLC

\* ------------------------------------------------------------------ bounds
MaxAttempts == 2      \* invocations of startConversation that pass its guard
MaxTimer == 2         \* ticks counted before the counter is capped
MaxEnds == 1          \* endConversation invocations awaiting leave() at once
MaxTranscript == 2    \* entries the transcript holds before appends stop

Attempts == 1..MaxAttempts
\* every attempt creates at most one frame: frame h is the frame of attempt h
Frames == Attempts
NoFrame == 0

VARIABLES
    isOpen,        \* useState(false), line 16
    isConnected,   \* line 17
    isConnecting,  \* line 18
    isMuted,       \* line 19
    callFrame,     \* line 21: the stored frame, NoFrame for null
    timer,         \* line 22
    connectLock,   \* connectLockRef.current, line 25
    timerRef,      \* timerRef.current, line 27: "null", "live" or "cleared"
    intervals,     \* number of setInterval timers that are set and not cleared
    effConnected,  \* value of isConnected the timer effect last ran with
    apiKey,        \* import.meta.env.VITE_PIPECAT_TOKEN, line 102
    nAttempts,     \* attempts started so far
    pc,            \* position of each attempt's async function
    oldFrame,      \* callFrame as read at line 144, while lines 144-148 run
    requests,      \* attempts whose fetch (line 115) was issued
    err,           \* the error the attempt's catch block received
    hState,        \* SDK state of each frame
    joined,        \* frames whose joined-meeting event was delivered
    audio,         \* local audio of each frame enabled
    endPending,    \* endConversation invocations awaiting leave() per frame
    lastOp,        \* the handler or step that ran last
    toast,         \* the message of the toast() call of that step, or "none"
    resp,          \* the response that step received from the fetch, or NoData
    sinceJoin,     \* ticks since isConnected last went from false to true
    transcript,    \* line 20: the entries, oldest first
    listeners,     \* the events each frame has a listener for
    mounted        \* the component is mounted

vars == <<isOpen, isConnected, isConnecting, isMuted, callFrame, timer,
          connectLock, timerRef, intervals, effConnected, apiKey, nAttempts,
          pc, oldFrame, requests, err, hState, joined, audio, endPending,
          lastOp, toast, resp, sinceJoin, transcript, listeners, mounted>>

tmVars == <<timer, timerRef, intervals, effConnected>>

\* ------------------------------------------------------------ environment
\* values of VITE_PIPECAT_TOKEN: unset, empty, set
ApiKeys == {"undef", "", "tok"}

\* a test for undefined alone, as `apiKey === undefined` would be
NotUndefined(v) == v # "undef"

\* lines 106, 197-200: a JavaScript value is falsy when it is undefined or
\* the empty string
Truthy(v) == v \notin {"undef", ""}

\* a || b
Or(a, b) == IF Truthy(a) THEN a ELSE b

\* what the fetch of line 115 delivers: status "rejected" when the promise
\* rejects, otherwise the HTTP status and the fields of the JSON body
Resp(st, dr, ru, rU, dt, tk) ==
    [status |-> st, dailyRoom |-> dr, room_url |-> ru, roomUrl |-> rU,
     dailyToken |-> dt, token |-> tk]

NoData == Resp("none", "undef", "undef", "undef", "undef", "undef")

\* res.ok, line 135
resOk(r) == r.status = "200"

Responses ==
    { Resp("rejected", "undef", "undef", "undef", "undef", "undef"),
      Resp("500", "undef", "undef", "undef", "undef", "undef"),
      Resp("200", "u", "undef", "undef", "t", "undef"),
      Resp("200", "undef", "u", "undef", "undef", "t"),
      Resp("200", "undef", "undef", "u", "undef", "t"),
      Resp("200", "undef", "undef", "undef", "t", "undef"),
      Resp("200", "u", "undef", "undef", "undef", "undef"),
      Resp("200", "", "undef", "undef", "t", "undef"),
      Resp("200", "undef", "undef", "undef", "undef", "undef") }

\* line 197
roomUrl(d) == Or(Or(d.dailyRoom, d.room_url), d.roomUrl)
\* line 198
roomToken(d) == Or(d.dailyToken, d.token)

InFlight(a) == pc[a] \in {"leaveOld", "destroyOld", "awaitFetch", "awaitJoin"}
Live(h) == hState[h] \notin {"none", "destroyed"}

\* the timer effect has run for the current value of isConnected
Settled == effConnected = isConnected

\* --------------------------------------------------------------- initial
Init ==
    /\ isOpen = FALSE
    /\ isConnected = FALSE
    /\ isConnecting = FALSE
    /\ isMuted = FALSE
    /\ callFrame = NoFrame
    /\ timer = 0
    /\ connectLock = FALSE
    /\ timerRef = "null"
    /\ intervals = 0
    /\ effConnected = FALSE
    /\ apiKey \in ApiKeys
    /\ nAttempts = 0
    /\ pc = [a \in Attempts |-> "idle"]
    /\ oldFrame = [a \in Attempts |-> NoFrame]
    /\ requests = {}
    /\ err = [a \in Attempts |-> "none"]
    /\ hState = [h \in Frames |-> "none"]
    /\ joined = {}
    /\ audio = [h \in Frames |-> TRUE]
    /\ endPending = [h \in Frames |-> 0]
    /\ lastOp = "init"
    /\ toast = "none"
    /\ resp = NoData
    /\ sinceJoin = 0
    /\ transcript = <<>>
    /\ listeners = [h \in Frames |-> {}]
    /\ mounted = TRUE

\* ---------------------------------------------------------- state setters
\* setIsConnected(v); sinceJoin restarts when isConnected goes false -> true
setIsConnected(v) ==
    /\ isConnected' = v
    /\ sinceJoin' = IF v /\ ~isConnected THEN 0 ELSE sinceJoin

\* error messages shown by toast()
MsgConfig == "VITE_PIPECAT_TOKEN is not configured in .env file"
MsgRequest == "API request failed"
MsgShape == "Missing room URL or token from API response"
MsgNetwork == "Failed to fetch"
MsgJoin == "Could not start conversation"
MsgSdk == "Connection failed"

\* a step that calls no toast() and receives no response
quiet(op) ==
    /\ lastOp' = op
    /\ toast' = "none"
    /\ resp' = NoData

\* the catch block without line 216
catchKeepsLock(a, e) ==
    /\ isConnecting' = FALSE
    /\ connectLock' = connectLock
    /\ toast' = e
    /\ err' = [err EXCEPT ![a] = e]
    /\ pc' = [pc EXCEPT ![a] = "failed"]

\* the catch block without line 214
catchKeepsConnecting(a, e) ==
    /\ isConnecting' = isConnecting
    /\ connectLock' = FALSE
    /\ toast' = e
    /\ err' = [err EXCEPT ![a] = e]
    /\ pc' = [pc EXCEPT ![a] = "failed"]

\* lines 213-218: the catch block of startConversation
catch(a, e) ==
    /\ isConnecting' = FALSE
    /\ connectLock' = FALSE
    /\ toast' = e
    /\ err' = [err EXCEPT ![a] = e]
    /\ pc' = [pc EXCEPT ![a] = "failed"]

\* -------------------------------------------------------------- transcript
BotName == "Chatbot"
Greeting == "I am Farm Vaidya AI"

\* an entry; timestamp (new Date(), line 76) is the ordinal of the call, the
\* random id of line 73 is left out
Entry(speaker, text, n) == [speaker |-> speaker, text |-> text, timestamp |-> n]

\* an addToTranscript that puts the new entry first
prependToTranscript(speaker, text) ==
    transcript' = <<Entry(speaker, text, Len(transcript) + 1)>> \o transcript

\* lines 69-79
addToTranscript(speaker, text) ==
    transcript' = Append(transcript,
                         Entry(speaker, text, Len(transcript) + 1))

\* ------------------------------------------------------------- listeners
\* the joined-meeting listener without line 167
joinedKeepsConnecting ==
    /\ setIsConnected(TRUE)
    /\ isConnecting' = isConnecting
    /\ connectLock' = FALSE
    /\ toast' = "none"

\* the joined-meeting listener without line 168
joinedKeepsLock ==
    /\ setIsConnected(TRUE)
    /\ isConnecting' = FALSE
    /\ connectLock' = connectLock
    /\ toast' = "none"

\* lines 165-169
joinedListener ==
    /\ setIsConnected(TRUE)
    /\ isConnecting' = FALSE
    /\ connectLock' = FALSE
    /\ toast' = "none"

\* lines 170-173
leftListener ==
    /\ setIsConnected(FALSE)
    /\ connectLock' = FALSE
    /\ toast' = "none"
    /\ UNCHANGED isConnecting

\* the error listener without line 176
errorKeepsLock ==
    /\ isConnecting' = FALSE
    /\ connectLock' = connectLock
    /\ toast' = MsgSdk
    /\ UNCHANGED <<isConnected, sinceJoin>>

\* lines 174-178
errorListener ==
    /\ isConnecting' = FALSE
    /\ connectLock' = FALSE
    /\ toast' = MsgSdk
    /\ UNCHANGED <<isConnected, sinceJoin>>

\* a listener that greets every participant
greetAnyone(name) == addToTranscript("ai", Greeting)

\* lines 179-183; line 180 compares user_name with "Chatbot"
participantJoinedListener(name) ==
    IF name = BotName
    THEN addToTranscript("ai", Greeting)
    ELSE UNCHANGED transcript

\* the events of lines 165, 170, 174, 179 and 184
FrameEvents == {"joined-meeting", "left-meeting", "error",
                "participant-joined", "active-speaker-change"}

\* a frame that gets its listeners only after join()
attachNothing(h) == UNCHANGED listeners

\* lines 164-193: the chain of .on() calls on the new frame
attachListeners(h) == listeners' = [listeners EXCEPT ![h] = FrameEvents]

\* ------------------------------------------------------ startConversation
\* lines 81-161, up to the first await: the guard, the lock, the credential
\* check, the fetch, and then either the cleanup of the stored frame (which
\* awaits) or the creation of the new frame
startConversation(a) ==
    IF connectLock \/ isConnecting \/ isConnected
    THEN /\ lastOp' = "startReturned"
         /\ toast' = "none"
         /\ UNCHANGED <<isConnecting, connectLock, err, pc, nAttempts,
                        oldFrame, requests, hState, listeners>>
    ELSE IF ~Truthy(apiKey)
    THEN /\ catch(a, MsgConfig)
         /\ nAttempts' = a
         /\ lastOp' = "startConfigError"
         /\ UNCHANGED <<oldFrame, requests, hState, listeners>>
    ELSE /\ connectLock' = TRUE
         /\ isConnecting' = TRUE
         /\ nAttempts' = a
         /\ requests' = requests \cup {a}
         /\ oldFrame' = [oldFrame EXCEPT ![a] = callFrame]
         /\ IF callFrame # NoFrame
              THEN /\ pc' = [pc EXCEPT ![a] = "leaveOld"]
                   /\ UNCHANGED <<hState, listeners>>
              ELSE /\ pc' = [pc EXCEPT ![a] = "awaitFetch"]
                   /\ hState' = [hState EXCEPT ![a] = "created"]
                   /\ attachListeners(a)
         /\ lastOp' = "start"
         /\ toast' = "none"
         /\ UNCHANGED err

\* line 311 and lines 35-39: the click that opens the widget, and the
\* auto-connect effect that runs when isOpen has changed
Open ==
    /\ mounted
    /\ UNCHANGED <<transcript, mounted>>
    /\ ~isOpen
    /\ Settled
    /\ isOpen' = TRUE
    /\ resp' = NoData
    /\ IF ~isConnected /\ ~isConnecting
         THEN /\ nAttempts < MaxAttempts
              /\ startConversation(nAttempts + 1)
         ELSE /\ lastOp' = "open"
              /\ toast' = "none"
              /\ UNCHANGED <<isConnecting, connectLock, err, pc, nAttempts,
                             oldFrame, requests, hState, listeners>>
    /\ UNCHANGED <<isConnected, sinceJoin, isMuted, callFrame, tmVars, apiKey,
                   joined, audio, endPending>>

\* line 145: callFrame.leave() has settled (a rejection is swallowed by
\* .catch(console.error)); line 146 calls destroy()
OldLeaveDone(a) ==
    /\ mounted
    /\ UNCHANGED <<transcript, listeners, mounted>>
    /\ pc[a] = "leaveOld"
    /\ Settled
    /\ pc' = [pc EXCEPT ![a] = "destroyOld"]
    /\ quiet("oldLeaveDone")
    /\ UNCHANGED <<isOpen, isConnected, sinceJoin, isConnecting, isMuted,
                   callFrame, connectLock, tmVars, apiKey, nAttempts, oldFrame,
                   requests, err, hState, joined, audio, endPending>>

\* lines 146-193: destroy() has settled (done, or rejected and swallowed),
\* setCallFrame(null), createFrame and the listeners
OldDestroyDone(a, done) ==
    /\ mounted
    /\ UNCHANGED <<transcript, mounted>>
    /\ pc[a] = "destroyOld"
    /\ Settled
    /\ done => hState[oldFrame[a]] # "joined"
    /\ hState' = [h \in Frames |->
                    IF h = a THEN "created"
                    ELSE IF h = oldFrame[a] /\ done THEN "destroyed"
                    ELSE hState[h]]
    /\ attachListeners(a)
    /\ callFrame' = NoFrame
    /\ oldFrame' = [oldFrame EXCEPT ![a] = NoFrame]
    /\ pc' = [pc EXCEPT ![a] = "awaitFetch"]
    /\ quiet("oldDestroyDone")
    /\ UNCHANGED <<isOpen, isConnected, sinceJoin, isConnecting, isMuted,
                   connectLock, tmVars, apiKey, nAttempts, requests, err,
                   joined, audio, endPending>>

\* lines 134-141 and 196-210: the continuation of `await fetchPromise` for a
\* response r; join() is called when the response has a URL and a token
fetchContinuation(a, r) ==
    IF r.status = "rejected"
    THEN /\ catch(a, MsgNetwork)
         /\ lastOp' = "fetchNetworkError"
         /\ UNCHANGED hState
    ELSE IF ~resOk(r)
    THEN /\ catch(a, MsgRequest)
         /\ lastOp' = "fetchNotOk"
         /\ UNCHANGED hState
    ELSE IF ~Truthy(roomUrl(r)) \/ ~Truthy(roomToken(r))
    THEN /\ catch(a, MsgShape)
         /\ lastOp' = "fetchShapeError"
         /\ UNCHANGED hState
    ELSE /\ pc' = [pc EXCEPT ![a] = "awaitJoin"]
         /\ hState' = [hState EXCEPT ![a] =
                          IF @ = "created" THEN "joining" ELSE @]
         /\ lastOp' = "join"
         /\ toast' = "none"
         /\ UNCHANGED <<isConnecting, connectLock, err>>

FetchDone(a) ==
    /\ mounted
    /\ UNCHANGED <<transcript, listeners, mounted>>
    /\ pc[a] = "awaitFetch"
    /\ Settled
    /\ \E r \in Responses :
          /\ fetchContinuation(a, r)
          /\ resp' = r
    /\ UNCHANGED <<isOpen, isConnected, sinceJoin, isMuted, callFrame, tmVars,
                   apiKey, nAttempts, oldFrame, requests, joined, audio,
                   endPending>>

\* line 211: join() resolved, setCallFrame(frame)
JoinResolve(a) ==
    /\ mounted
    /\ UNCHANGED <<transcript, listeners, mounted>>
    /\ pc[a] = "awaitJoin"
    /\ Settled
    /\ a \in joined
    /\ callFrame' = a
    /\ pc' = [pc EXCEPT ![a] = "done"]
    /\ quiet("joinResolved")
    /\ UNCHANGED <<isOpen, isConnected, sinceJoin, isConnecting, isMuted,
                   connectLock, tmVars, apiKey, nAttempts, oldFrame, requests,
                   err, hState, joined, audio, endPending>>

\* lines 206-218: join() rejected, the catch block runs
JoinReject(a) ==
    /\ mounted
    /\ UNCHANGED <<transcript, listeners, mounted>>
    /\ pc[a] = "awaitJoin"
    /\ Settled
    /\ a \notin joined
    /\ catch(a, MsgJoin)
    /\ hState' = [hState EXCEPT ![a] = "errored"]
    /\ lastOp' = "joinRejected"
    /\ resp' = NoData
    /\ UNCHANGED <<isOpen, isConnected, sinceJoin, isMuted, callFrame, tmVars,
                   apiKey, nAttempts, oldFrame, requests, joined, audio,
                   endPending>>

\* ------------------------------------------------------------- SDK events
sdkFrame == <<isOpen, isMuted, callFrame, tmVars, apiKey, nAttempts, pc,
              oldFrame, requests, err, audio, endPending>>

\* the frame emits joined-meeting: its join() was called and has succeeded
SdkJoined(h) ==
    /\ mounted
    /\ UNCHANGED <<transcript, listeners, mounted>>
    /\ hState[h] = "joining"
    /\ Settled
    /\ hState' = [hState EXCEPT ![h] = "joined"]
    /\ joined' = joined \cup {h}
    /\ joinedListener
    /\ lastOp' = "sdkJoined"
    /\ resp' = NoData
    /\ UNCHANGED sdkFrame

\* the frame emits left-meeting: it was in a session and has left it
SdkLeft(h) ==
    /\ mounted
    /\ UNCHANGED <<transcript, listeners, mounted>>
    /\ hState[h] = "joined"
    /\ Settled
    /\ hState' = [hState EXCEPT ![h] = "left"]
    /\ leftListener
    /\ lastOp' = "sdkLeft"
    /\ resp' = NoData
    /\ UNCHANGED <<sdkFrame, joined>>

\* the frame emits error: any frame that exists and has not ended
SdkError(h) ==
    /\ mounted
    /\ UNCHANGED <<transcript, listeners, mounted>>
    /\ hState[h] \in {"created", "joining", "joined"}
    /\ Settled
    /\ hState' = [hState EXCEPT ![h] = "errored"]
    /\ errorListener
    /\ lastOp' = "sdkError"
    /\ resp' = NoData
    /\ UNCHANGED <<sdkFrame, joined>>

\* the names a joining participant can have
Names == {BotName, "Guest"}

\* a participant joins the session the frame is in: participant-joined;
\* lastOp records whether the participant had the name of the bot
SdkParticipantJoined(h, name) ==
    /\ mounted
    /\ hState[h] = "joined"
    /\ Settled
    /\ name = BotName => Len(transcript) < MaxTranscript
    /\ participantJoinedListener(name)
    /\ quiet(IF name = BotName THEN "botJoined" ELSE "guestJoined")
    /\ UNCHANGED <<isOpen, isConnected, sinceJoin, isConnecting, isMuted,
                   callFrame, connectLock, tmVars, apiKey, nAttempts, pc,
                   oldFrame, requests, err, hState, joined, audio, endPending,
                   listeners, mounted>>

\* --------------------------------------------------------- endConversation
TotalEnds == Cardinality({h \in Frames : endPending[h] > 0})

\* lines 225-226
endTail ==
    /\ setIsConnected(FALSE)
    /\ isOpen' = FALSE

\* lines 221-227 up to the await: with no stored frame the handler runs to
\* its end; with one it calls leave() and awaits it
EndConversation ==
    /\ mounted
    /\ UNCHANGED <<transcript, listeners, mounted>>
    /\ isOpen
    /\ Settled
    /\ IF callFrame = NoFrame
         THEN /\ endTail
              /\ quiet("endNoFrame")
              /\ UNCHANGED endPending
         ELSE /\ endPending[callFrame] = 0
              /\ TotalEnds < MaxEnds
              /\ endPending' = [endPending EXCEPT ![callFrame] = 1]
              /\ quiet("endLeave")
              /\ UNCHANGED <<isConnected, sinceJoin, isOpen>>
    /\ UNCHANGED <<isConnecting, isMuted, callFrame, connectLock, tmVars,
                   apiKey, nAttempts, pc, oldFrame, requests, err, hState,
                   joined, audio>>

endFrame == <<isConnecting, isMuted, callFrame, connectLock, tmVars, apiKey,
              nAttempts, pc, oldFrame, requests, err, hState, joined, audio>>

\* line 223 resolved: lines 225-226 run
EndLeaveResolve(h) ==
    /\ mounted
    /\ UNCHANGED <<transcript, listeners, mounted>>
    /\ endPending[h] > 0
    /\ Settled
    /\ hState[h] # "joined"
    /\ endPending' = [endPending EXCEPT ![h] = 0]
    /\ endTail
    /\ quiet("endLeft")
    /\ UNCHANGED endFrame

\* line 223 rejected: the rejection leaves endConversation, lines 225-226
\* do not run
EndLeaveReject(h) ==
    /\ mounted
    /\ UNCHANGED <<transcript, listeners, mounted>>
    /\ endPending[h] > 0
    /\ Settled
    /\ endPending' = [endPending EXCEPT ![h] = 0]
    /\ quiet("endLeaveFailed")
    /\ UNCHANGED <<endFrame, isConnected, sinceJoin, isOpen>>

\* -------------------------------------------------------------- toggleMute
\* a toggleMute that passes newMuteState to setLocalAudio
toggleMuteInverted ==
    /\ isMuted' = ~isMuted
    /\ IF callFrame = NoFrame
         THEN UNCHANGED audio
         ELSE audio' = [audio EXCEPT ![callFrame] = ~isMuted]

\* lines 229-235; setLocalAudio throws on a destroyed frame and then
\* setIsMuted is not reached
toggleMute ==
    IF callFrame = NoFrame
    THEN /\ isMuted' = ~isMuted
         /\ UNCHANGED audio
    ELSE IF hState[callFrame] = "destroyed"
    THEN UNCHANGED <<isMuted, audio>>
    ELSE /\ audio' = [audio EXCEPT ![callFrame] = isMuted]
         /\ isMuted' = ~isMuted

ToggleMute ==
    /\ mounted
    /\ UNCHANGED <<transcript, listeners, mounted>>
    /\ isOpen
    /\ Settled
    /\ toggleMute
    /\ quiet("toggleMute")
    /\ UNCHANGED <<isOpen, isConnected, sinceJoin, isConnecting, callFrame,
                   connectLock, tmVars, apiKey, nAttempts, pc, oldFrame,
                   requests, err, hState, joined, endPending>>

\* ------------------------------------------------------------------ timer
\* an updater that counts every tick twice
tickTwice(prev) == prev + 2

\* line 45: the updater handed to setTimer
tickUpdate(prev) == prev + 1

\* lines 44-46: the interval callback
Tick ==
    /\ mounted
    /\ UNCHANGED <<transcript, listeners, mounted>>
    /\ intervals > 0
    /\ timer < MaxTimer
    /\ timer' = tickUpdate(timer)
    /\ sinceJoin' = sinceJoin + 1
    /\ quiet("tick")
    /\ UNCHANGED <<isOpen, isConnected, isConnecting, isMuted, callFrame,
                   connectLock, timerRef, intervals, effConnected, apiKey,
                   nAttempts, pc, oldFrame, requests, err, hState, joined,
                   audio, endPending>>

\* lines 53-57: the cleanup of the previous run of the effect; clearInterval
\* of an interval that was cleared before does nothing
cleanupIntervals == IF timerRef = "live" THEN intervals - 1 ELSE intervals
cleanupRef == IF timerRef = "live" THEN "cleared" ELSE timerRef

\* the timer effect without a clearInterval (lines 48-50 and 54-56)
timerEffectNoClear ==
    IF isConnected
    THEN /\ timerRef' = "live"
         /\ intervals' = intervals + 1
         /\ UNCHANGED timer
    ELSE /\ UNCHANGED <<timerRef, intervals>>
         /\ timer' = 0

\* the timer effect without line 51
timerEffectNoReset ==
    IF isConnected
    THEN /\ timerRef' = "live"
         /\ intervals' = cleanupIntervals + 1
         /\ UNCHANGED timer
    ELSE /\ timerRef' = cleanupRef
         /\ intervals' = cleanupIntervals
         /\ UNCHANGED timer

\* lines 42-58: isConnected has changed; the cleanup of the previous run,
\* then the body
timerEffect ==
    IF isConnected
    THEN /\ timerRef' = "live"
         /\ intervals' = cleanupIntervals + 1
         /\ UNCHANGED timer
    ELSE /\ timerRef' = cleanupRef
         /\ intervals' = cleanupIntervals
         /\ timer' = 0

TimerEffect ==
    /\ mounted
    /\ UNCHANGED <<transcript, listeners, mounted>>
    /\ ~Settled
    /\ timerEffect
    /\ effConnected' = isConnected
    /\ quiet("timerEffect")
    /\ UNCHANGED <<isOpen, isConnected, sinceJoin, isConnecting, isMuted,
                   callFrame, connectLock, apiKey, nAttempts, pc, oldFrame,
                   requests, err, hState, joined, audio, endPending>>

\* lines 53-57: the component unmounts and the cleanup of the timer effect
\* runs; the model follows the component no further
Unmount ==
    /\ mounted
    /\ mounted' = FALSE
    /\ intervals' = cleanupIntervals
    /\ timerRef' = cleanupRef
    /\ quiet("unmount")
    /\ UNCHANGED <<isOpen, isConnected, sinceJoin, isConnecting, isMuted,
                   callFrame, timer, connectLock, effConnected, apiKey,
                   nAttempts, pc, oldFrame, requests, err, hState, joined,
                   audio, endPending, transcript, listeners>>

\* ---------------------------------------------------------- specification
Next ==
    \/ Open
    \/ \E a \in Attempts : OldLeaveDone(a)
    \/ \E a \in Attempts : \E done \in BOOLEAN : OldDestroyDone(a, done)
    \/ \E a \in Attempts : FetchDone(a)
    \/ \E a \in Attempts : JoinResolve(a)
    \/ \E a \in Attempts : JoinReject(a)
    \/ \E h \in Frames : SdkJoined(h)
    \/ \E h \in Frames : SdkLeft(h)
    \/ \E h \in Frames : SdkError(h)
    \/ \E h \in Frames : \E name \in Names : SdkParticipantJoined(h, name)
    \/ EndConversation
    \/ \E h \in Frames : EndLeaveResolve(h)
    \/ \E h \in Frames : EndLeaveReject(h)
    \/ ToggleMute
    \/ Tick
    \/ TimerEffect
    \/ Unmount

Spec == Init /\ [][Next]_vars

\* the fetch of an attempt settles (line 196), its join() settles (206-210:
\* the frame joins and the promise resolves, or the promise rejects), and
\* React runs a pending effect (41-58).  leave() and destroy() of the stored
\* frame (145-146) and the events of the SDK are not assumed to happen.
Completes ==
    /\ \A a \in Attempts : WF_vars(FetchDone(a))
    /\ \A a \in Attempts : WF_vars(SdkJoined(a) \/ JoinReject(a))
    /\ \A a \in Attempts : WF_vars(JoinResolve(a))
    /\ WF_vars(TimerEffect)

LiveSpec == Spec /\ Completes

\* ------------------------------------------------------------------ claims
FailureOps == {"startConfigError", "fetchNetworkError", "fetchNotOk",
               "fetchShapeError", "joinRejected", "sdkError"}

\* C1: lock property. At most one connection attempt is in flight (started,
\* with its fetch or its join not yet completed) at any time, so a second
\* start never issues a second request or creates a second frame while the
\* first attempt is pending.
C1_OneAttemptInFlight ==
    Cardinality({a \in Attempts : InFlight(a)}) <= 1

\* C2: isConnecting and isConnected are never both true.
C2_ConnectingExcludesConnected == ~(isConnecting /\ isConnected)

\* a second attempt is connecting after an earlier session had been joined
C2_Witness ==
    /\ isConnecting /\ ~isConnected
    /\ joined # {}
    /\ \E a \in Attempts : InFlight(a) /\ a \notin joined

\* C3: at most one frame is live (created and not destroyed) at any time:
\* every frame created earlier has been destroyed before a new one is created.
C3_OneLiveFrame ==
    Cardinality({h \in Frames : Live(h)}) <= 1

\* C4: the state that results from the delivery of joined-meeting has
\* isConnected true, isConnecting false and the lock released.
C4_JoinedState ==
    lastOp = "sdkJoined" => isConnected /\ ~isConnecting /\ ~connectLock

\* joined-meeting was delivered to the frame of an attempt that still awaits
\* its join()
C4_Witness ==
    /\ lastOp = "sdkJoined"
    /\ \E a \in Attempts : pc[a] = "awaitJoin" /\ hState[a] = "joined"

\* C5: every failure of a connection attempt (missing credential, rejected or
\* unsuccessful request, response without URL or token, rejected join, SDK
\* error event) results in a state with isConnecting false and the lock
\* released, and calls toast() with an error message.
C5_FailureResets ==
    lastOp \in FailureOps =>
        /\ ~isConnecting
        /\ ~connectLock
        /\ toast \in {MsgConfig, MsgNetwork, MsgRequest, MsgShape, MsgJoin,
                      MsgSdk}

\* a join() was rejected while the attempt held the lock
C5_Witness ==
    /\ lastOp = "joinRejected"
    /\ toast = MsgJoin
    /\ \E a \in Attempts : pc[a] = "failed" /\ err[a] = MsgJoin

\* C6: with no credential configured no request is ever issued and no frame
\* is ever created, and after a start isConnected and isConnecting are false,
\* the lock is released and the error shown is the configuration error.
C6_NoCredential ==
    apiKey \in {"undef", ""} =>
        /\ requests = {}
        /\ \A h \in Frames : hState[h] = "none"
        /\ ~isConnected /\ ~isConnecting /\ ~connectLock
        /\ lastOp = "startConfigError" =>
              toast = MsgConfig /\ err[nAttempts] = MsgConfig

\* a start has failed for the empty credential
C6_Witness ==
    /\ apiKey = ""
    /\ lastOp = "startConfigError"
    /\ isOpen

\* the body of a parsed response has none of the URL aliases, or none of the
\* token aliases
LacksUrlOrToken(r) ==
    \/ r.dailyRoom = "undef" /\ r.room_url = "undef" /\ r.roomUrl = "undef"
    \/ r.dailyToken = "undef" /\ r.token = "undef"

\* C7: when the parsed response has none of the URL aliases (or none of the
\* token aliases) the attempt fails with the response-shape error, join() is
\* not called on its frame, and isConnected is false afterwards.
C7_ShapeError ==
    /\ resp.status = "200" /\ LacksUrlOrToken(resp) =>
          lastOp = "fetchShapeError" /\ toast = MsgShape /\ ~isConnected
    /\ \A a \in Attempts :
          err[a] = MsgShape =>
             pc[a] = "failed" /\ a \notin joined /\ hState[a] # "joining"

\* C8: endConversation always ends with isConnected false and isOpen false:
\* with no stored frame, after leave() resolved and after leave() rejected.
C8_EndAlwaysCloses ==
    lastOp \in {"endNoFrame", "endLeft", "endLeaveFailed"} =>
        ~isConnected /\ ~isOpen

\* C9: once the timer effect has run for isConnected = false the counter is
\* 0: in every settled state with isConnected false, timer = 0.
C9_TimerResetOnDisconnect ==
    Settled /\ ~isConnected => timer = 0

\* the effect has run after a session in which the counter had ticked
C9_Witness ==
    /\ lastOp = "timerEffect"
    /\ ~isConnected
    /\ sinceJoin > 0
    /\ timer = 0

\* C10: while isConnected is true the counter equals the number of ticks
\* since isConnected last went from false to true: it is 0 at that moment
\* and grows by one per tick, also in a second session.
C10_TimerCountsTicks ==
    isConnected => timer = sinceJoin

\* a second session has counted two ticks
C10_Witness ==
    /\ isConnected
    /\ Cardinality(joined) = 2
    /\ timer = 2
    /\ sinceJoin = 2

\* C11: the transcript is append-only. Every step either leaves it as it is
\* or appends exactly one entry, which carries the speaker and text it was
\* appended with and the ordinal of the call; no step removes, reorders or
\* rewrites an entry, so after N calls it holds N entries in call order.
C11_AppendOnly ==
    [][ \/ transcript' = transcript
        \/ /\ Len(transcript') = Len(transcript) + 1
           /\ SubSeq(transcript', 1, Len(transcript)) = transcript
           /\ transcript'[Len(transcript')] =
                 Entry("ai", Greeting, Len(transcript) + 1) ]_vars

\* two entries were appended, in the order of the calls
C11_Witness ==
    /\ Len(transcript) = 2
    /\ transcript[1].timestamp = 1
    /\ transcript[2].timestamp = 2

\* C12: no attempt starts and no request is issued except in the step that
\* takes the widget from closed to open, so a failed attempt is not retried
\* while the widget stays open; and that step, taken with isConnected and
\* isConnecting false, does start an attempt.
C12_RetryOnlyOnReopen ==
    [][ /\ (nAttempts' # nAttempts \/ requests' # requests) =>
              ~isOpen /\ isOpen'
        /\ (~isOpen /\ isOpen' /\ ~isConnected /\ ~isConnecting) =>
              nAttempts' = nAttempts + 1 ]_vars

\* a second attempt was started by reopening after the first had failed
C12_Witness ==
    /\ lastOp = "start"
    /\ nAttempts = 2
    /\ pc[1] = "failed"
    /\ requests = {1, 2}

\* the frame's join() has been called
JoinCalled(h) ==
    \/ hState[h] \in {"joining", "joined", "left"}
    \/ h \in joined
    \/ pc[h] \in {"awaitJoin", "done"}
    \/ err[h] = MsgJoin

\* C13: join() is called only with a response that was successful and had a
\* room URL and a token, and only on a frame that was created with all five
\* listeners attached; a frame that exists has its listeners, so no event of
\* a frame comes before they are attached.
C13_JoinAfterFetchAndListeners ==
    /\ lastOp = "join" =>
          resOk(resp) /\ roomUrl(resp) = "u" /\ roomToken(resp) = "t"
    /\ \A h \in Frames :
          /\ JoinCalled(h) => h \in requests /\ listeners[h] = FrameEvents
          /\ Live(h) => listeners[h] = FrameEvents

\* join() was called on a frame created after the cleanup of a stored frame
C13_Witness ==
    /\ lastOp = "join"
    /\ hState[2] = "joining"
    /\ hState[1] = "destroyed"
    /\ listeners[2] = FrameEvents

\* connecting is false and the lock is released
Released == ~isConnecting /\ ~connectLock

\* C14: when the fetch and the join() of an attempt each settle, an attempt
\* in flight is followed by a state with isConnecting false and the lock
\* released (as long as the component stays mounted).
C14_AttemptReleases ==
    \A a \in Attempts :
       (mounted /\ InFlight(a)) ~> (Released \/ ~mounted)

\* no attempt awaits leave() or destroy() of the stored frame (145-146)
NoCleanupPending ==
    \A b \in Attempts : pc[b] \notin {"leaveOld", "destroyOld"}

\* C14 while no attempt awaits the cleanup of the stored frame (lines
\* 143-148): an attempt in flight, which then awaits its fetch or its
\* join(), is followed by a state with isConnecting false and the lock
\* released.
C14_AttemptReleasesAfterCleanup ==
    \A a \in Attempts :
       (mounted /\ InFlight(a) /\ NoCleanupPending)
          ~> (Released \/ ~mounted)

\* an attempt that cleaned up a stored frame has failed after its join() was
\* called, and connecting and the lock are reset
C14_Witness ==
    /\ mounted
    /\ pc[2] = "failed"
    /\ err[2] = MsgJoin
    /\ hState[1] = "destroyed"
    /\ Released

\* C15: at most one interval exists, none exists while isConnected is
\* false, none is left after unmount, and no tick comes while isConnected is
\* false.
C15_TickOnlyWhileConnected ==
    /\ intervals <= 1
    /\ ~isConnected => intervals = 0
    /\ ~mounted => intervals = 0
    /\ lastOp = "tick" => isConnected

\* C15 once the timer effect has run for the current value of isConnected:
\* at most one interval exists at any time, none exists in a settled state
\* with isConnected false, none is left after unmount, and a tick comes
\* only while isConnected is true or before the effect has run for the
\* change to false.
C15_TickOnlyWhileConnectedSettled ==
    /\ intervals <= 1
    /\ Settled /\ ~isConnected => intervals = 0
    /\ ~mounted => intervals = 0
    /\ lastOp = "tick" => isConnected \/ ~Settled

\* the component was unmounted during a session and its interval was cleared
C15_Witness ==
    /\ ~mounted
    /\ isConnected
    /\ timerRef = "cleared"
    /\ intervals = 0

\* C16: a toggleMute step negates isMuted, sets the audio of the stored
\* frame, when there is one, to enabled exactly when the new isMuted is
\* false, and leaves the audio of every other frame, isOpen, isConnecting,
\* isConnected, the counter, the transcript and the lock unchanged; as every
\* toggle negates isMuted, two toggles in a row restore it.
C16_ToggleMute ==
    [][ lastOp' = "toggleMute" =>
          /\ isMuted' = ~isMuted
          /\ \A h \in Frames :
                audio'[h] = IF h = callFrame THEN ~isMuted' ELSE audio[h]
          /\ UNCHANGED <<isOpen, isConnecting, isConnected, timer,
                         transcript, connectLock, callFrame>> ]_vars

\* the session of the stored frame was muted by a toggle
C16_Witness ==
    /\ lastOp = "toggleMute"
    /\ callFrame # NoFrame
    /\ hState[callFrame] = "joined"
    /\ isMuted
    /\ ~audio[callFrame]

\* C17: a participant-joined event of the bot appends exactly one entry,
\* the greeting with speaker "ai", to the transcript; the event of any other
\* participant leaves the transcript unchanged; both leave isConnected,
\* isConnecting and the lock unchanged.
C17_ParticipantJoined ==
    [][ /\ lastOp' = "botJoined" =>
              transcript' = Append(transcript,
                                   Entry("ai", Greeting, Len(transcript) + 1))
        /\ lastOp' = "guestJoined" => transcript' = transcript
        /\ lastOp' \in {"botJoined", "guestJoined"} =>
              UNCHANGED <<isConnected, isConnecting, connectLock>> ]_vars

\* the bot has joined: its greeting is the one entry of the transcript
C17_Witness ==
    /\ lastOp = "botJoined"
    /\ Len(transcript) = 1
    /\ transcript[1].speaker = "ai"
    /\ transcript[1].text = Greeting

\* C18: whenever the widget is closed, isConnected is false and no frame is
\* joined to a session.
C18_ClosedMeansDisconnected ==
    ~isOpen =>
       /\ ~isConnected
       /\ \A h \in Frames : hState[h] # "joined"

\* C19: whenever a frame is joined to a session, its local audio is enabled
\* exactly when isMuted is false.
C19_AudioMatchesMuted ==
    \A h \in Frames :
       hState[h] = "joined" => (audio[h] <=> ~isMuted)

====
